---- MODULE Spec2Model ----
(***************************************************************************)
(* LRU-K replacer (src/src/buffer/lru_k_replacer.cpp).                     *)
(*                                                                         *)
(* Spec     : the replacer driven by one caller; every call is one step.   *)
(* SpecConc : the replacer driven by several threads; a call is split at   *)
(*            the latch and at the statements of its body.                 *)
(*                                                                         *)
(* Persistent trie (src/src/primer/trie.cpp).                              *)
(*                                                                         *)
(* SpecTrie : a caller that keeps every trie it was returned and calls Put *)
(*            and Remove on any of them; the nodes live in a heap that the *)
(*            tries share.                                                 *)
(***************************************************************************)
EXTENDS Integers, Sequences, FiniteSets, TLC

VARIABLES node_store_, replacer_size_, current_timestamp_, last,
          latch_, pc, frame, lin,
          heap, roots, snap, tlast

vars == <<node_store_, replacer_size_, current_timestamp_, last,
          latch_, pc, frame, lin, heap, roots, snap, tlast>>

replacer == <<node_store_, replacer_size_, current_timestamp_>>
threads == <<latch_, pc, frame, lin>>
tries == <<heap, roots, snap, tlast>>

-----------------------------------------------------------------------------
(* Constructor arguments and bounds of the exploration.                    *)

\* LRUKReplacer(num_frames, k): the capacity of the explored replacer.
max_num_frames_ == 3

\* LRUKReplacer(num_frames, k): the history window of the explored replacer.
k_ == 2

\* RecordAccess is explored until the logical clock reaches MaxClock.
MaxClock == 4

\* Number of caller threads of SpecConc.
NumThreads == 2

\* SpecConc explores RecordAccess until the logical clock reaches ConcClock.
ConcClock == 3

\* Frame ids handed to the operations: the valid ids 0 .. max_num_frames_-1,
\* the negative id -1, the id max_num_frames_ and one id beyond it.
InputIds == -1 .. (max_num_frames_ + 1)

Threads == 1 .. NumThreads

NoFrame == -1

\* The largest value TLC's integers hold stands for SIZE_MAX, the value a
\* size_t takes when it is decremented at zero.
SIZE_MAX == 1073741823 + 1073741824

-----------------------------------------------------------------------------
(* LRUKNode: the frame record.  Its class lives in lru_k_replacer.h.       *)

LRUKNode == [history_ |-> <<>>, is_evictable_ |-> FALSE]

IsEvictable(node) == node.is_evictable_

IsEmpty(node) == Len(node.history_) = 0

Size(node) == Len(node.history_)

\* The oldest retained access.
EarliestTime(node) == node.history_[1]

\* The k-th most recent access.
LastKTime(node, k) == node.history_[Len(node.history_) - k + 1]

ClearNode(node) == [history_ |-> <<>>, is_evictable_ |-> FALSE]

AddHistoryUncapped(node, ts) ==
    [node EXCEPT !.history_ = Append(@, ts)]

AddHistory(node, ts) ==
    IF Len(node.history_) = k_
    THEN [node EXCEPT !.history_ = Append(Tail(@), ts)]
    ELSE [node EXCEPT !.history_ = Append(@, ts)]

NodeSetEvictable(node, set_evictable) ==
    [node EXCEPT !.is_evictable_ = set_evictable]

\* TRUE when the id passes the range check 0 <= id < capacity.
CheckFrameId(frame_id) == frame_id >= 0 /\ frame_id < max_num_frames_

-----------------------------------------------------------------------------
(* The replacer's state as a value, and size_t arithmetic.                 *)

State(ns, sz, ts) ==
    [node_store_ |-> ns, replacer_size_ |-> sz, current_timestamp_ |-> ts]

\* An unordered_map with no entry.
EmptyStore == [fid \in {} |-> LRUKNode]

InitState == State(EmptyStore, 0, 0)

cur == State(node_store_, replacer_size_, current_timestamp_)

Dec(n) == IF n = 0 THEN SIZE_MAX ELSE n - 1

Inc(n) == IF n = SIZE_MAX THEN 0 ELSE n + 1

Nodes(s) == DOMAIN s.node_store_

Outcome(s, ok, out, err) == [st |-> s, ok |-> ok, out |-> out, err |-> err]

\* The orders in which a scan of an unordered_map with key set S may visit it
\* (the iteration order of an unordered_map is unspecified).
Orders(S) ==
    {o \in [1 .. Cardinality(S) -> S] : \A x \in S : \E i \in DOMAIN o : o[i] = x}

OrdersOfKeys == [S \in SUBSET (0 .. (max_num_frames_ - 1)) |-> Orders(S)]

ScanOrders(S) == OrdersOfKeys[S]

-----------------------------------------------------------------------------
(* LRUKReplacer::Evict                                                     *)

\* The locals of Evict before the scan.
EvictLocals ==
    [has_inf |-> FALSE, earliest_backward_k |-> 0, earliest_fewer_k |-> 0,
     evict_id |-> NoFrame]

\* EvictVisit with the test of has_inf left out of the second branch.
EvictVisitNoInf(loc, fid, node) ==
    IF ~IsEvictable(node) \/ IsEmpty(node)
    THEN loc
    ELSE IF Size(node) < k_
    THEN LET earliest_in_node == EarliestTime(node) IN
         IF loc.earliest_fewer_k = 0 \/ earliest_in_node < loc.earliest_fewer_k
         THEN [loc EXCEPT !.has_inf = TRUE,
                          !.earliest_fewer_k = earliest_in_node,
                          !.evict_id = fid]
         ELSE [loc EXCEPT !.has_inf = TRUE]
    ELSE LET last_k_time == LastKTime(node, k_) IN
         IF loc.earliest_backward_k = 0 \/ last_k_time < loc.earliest_backward_k
         THEN [loc EXCEPT !.earliest_backward_k = last_k_time,
                          !.evict_id = fid]
         ELSE loc

\* EvictVisit with the comparison of the first branch reversed.
EvictVisitShortLatest(loc, fid, node) ==
    IF ~IsEvictable(node) \/ IsEmpty(node)
    THEN loc
    ELSE IF Size(node) < k_
    THEN LET earliest_in_node == EarliestTime(node) IN
         IF loc.earliest_fewer_k = 0 \/ earliest_in_node > loc.earliest_fewer_k
         THEN [loc EXCEPT !.has_inf = TRUE,
                          !.earliest_fewer_k = earliest_in_node,
                          !.evict_id = fid]
         ELSE [loc EXCEPT !.has_inf = TRUE]
    ELSE IF ~loc.has_inf /\ Size(node) >= k_
    THEN LET last_k_time == LastKTime(node, k_) IN
         IF loc.earliest_backward_k = 0 \/ last_k_time < loc.earliest_backward_k
         THEN [loc EXCEPT !.earliest_backward_k = last_k_time,
                          !.evict_id = fid]
         ELSE loc
    ELSE loc

\* EvictVisit ranking the frames of the second branch by their latest access.
EvictVisitFullRecency(loc, fid, node) ==
    IF ~IsEvictable(node) \/ IsEmpty(node)
    THEN loc
    ELSE IF Size(node) < k_
    THEN LET earliest_in_node == EarliestTime(node) IN
         IF loc.earliest_fewer_k = 0 \/ earliest_in_node < loc.earliest_fewer_k
         THEN [loc EXCEPT !.has_inf = TRUE,
                          !.earliest_fewer_k = earliest_in_node,
                          !.evict_id = fid]
         ELSE [loc EXCEPT !.has_inf = TRUE]
    ELSE IF ~loc.has_inf /\ Size(node) >= k_
    THEN LET last_k_time == LastKTime(node, 1) IN
         IF loc.earliest_backward_k = 0 \/ last_k_time < loc.earliest_backward_k
         THEN [loc EXCEPT !.earliest_backward_k = last_k_time,
                          !.evict_id = fid]
         ELSE loc
    ELSE loc

\* EvictVisit skipping the empty records only.
EvictVisitPinned(loc, fid, node) ==
    IF IsEmpty(node)
    THEN loc
    ELSE IF Size(node) < k_
    THEN LET earliest_in_node == EarliestTime(node) IN
         IF loc.earliest_fewer_k = 0 \/ earliest_in_node < loc.earliest_fewer_k
         THEN [loc EXCEPT !.has_inf = TRUE,
                          !.earliest_fewer_k = earliest_in_node,
                          !.evict_id = fid]
         ELSE [loc EXCEPT !.has_inf = TRUE]
    ELSE IF ~loc.has_inf /\ Size(node) >= k_
    THEN LET last_k_time == LastKTime(node, k_) IN
         IF loc.earliest_backward_k = 0 \/ last_k_time < loc.earliest_backward_k
         THEN [loc EXCEPT !.earliest_backward_k = last_k_time,
                          !.evict_id = fid]
         ELSE loc
    ELSE loc

\* One iteration of the scan over node_store_.
EvictVisit(loc, fid, node) ==
    IF ~IsEvictable(node) \/ IsEmpty(node)
    THEN loc
    ELSE IF Size(node) < k_
    THEN LET earliest_in_node == EarliestTime(node) IN
         IF loc.earliest_fewer_k = 0 \/ earliest_in_node < loc.earliest_fewer_k
         THEN [loc EXCEPT !.has_inf = TRUE,
                          !.earliest_fewer_k = earliest_in_node,
                          !.evict_id = fid]
         ELSE [loc EXCEPT !.has_inf = TRUE]
    ELSE IF ~loc.has_inf /\ Size(node) >= k_
    THEN LET last_k_time == LastKTime(node, k_) IN
         IF loc.earliest_backward_k = 0 \/ last_k_time < loc.earliest_backward_k
         THEN [loc EXCEPT !.earliest_backward_k = last_k_time,
                          !.evict_id = fid]
         ELSE loc
    ELSE loc

\* The scan, visiting the entries in the order `order`, from position i on.
RECURSIVE EvictScan(_, _, _, _)
EvictScan(ns, order, i, loc) ==
    IF i > Len(order)
    THEN loc
    ELSE EvictScan(ns, order, i + 1, EvictVisit(loc, order[i], ns[order[i]]))

\* EvictCommit without the decrement of replacer_size_.
EvictCommitNoDec(s, evict_id) ==
    IF evict_id # NoFrame
    THEN Outcome(State([s.node_store_ EXCEPT ![evict_id] = ClearNode(@)],
                       s.replacer_size_, s.current_timestamp_),
                 TRUE, evict_id, "none")
    ELSE Outcome(s, FALSE, NoFrame, "none")

\* EvictCommit that leaves the record of the victim as it was.
EvictCommitNoClear(s, evict_id) ==
    IF evict_id # NoFrame
    THEN Outcome(State(s.node_store_, Dec(s.replacer_size_),
                       s.current_timestamp_),
                 TRUE, evict_id, "none")
    ELSE Outcome(s, FALSE, NoFrame, "none")

\* EvictCommit decrementing replacer_size_ whether or not a victim was found.
EvictCommitAlwaysDec(s, evict_id) ==
    IF evict_id # NoFrame
    THEN Outcome(State([s.node_store_ EXCEPT ![evict_id] = ClearNode(@)],
                       Dec(s.replacer_size_), s.current_timestamp_),
                 TRUE, evict_id, "none")
    ELSE Outcome(State(s.node_store_, Dec(s.replacer_size_),
                       s.current_timestamp_),
                 FALSE, NoFrame, "none")

\* What Evict does with the frame the scan selected.
EvictCommit(s, evict_id) ==
    IF evict_id # NoFrame
    THEN Outcome(State([s.node_store_ EXCEPT ![evict_id] = ClearNode(@)],
                       Dec(s.replacer_size_), s.current_timestamp_),
                 TRUE, evict_id, "none")
    ELSE Outcome(s, FALSE, NoFrame, "none")

Evict(s, order) ==
    EvictCommit(s, EvictScan(s.node_store_, order, 1, EvictLocals).evict_id)

-----------------------------------------------------------------------------
(* LRUKReplacer::RecordAccess                                              *)

\* RecordAccess checking the id after the record was created and stamped.
RecordAccessLateCheck(s, frame_id) ==
    LET ns1 == IF frame_id \notin DOMAIN s.node_store_
               THEN s.node_store_ @@ (frame_id :> LRUKNode)
               ELSE s.node_store_
        ts1 == s.current_timestamp_ + 1
        s1  == State([ns1 EXCEPT ![frame_id] = AddHistory(@, ts1)],
                     s.replacer_size_, ts1)
    IN  IF ~CheckFrameId(frame_id)
        THEN Outcome(s1, FALSE, NoFrame, "invalid_id")
        ELSE Outcome(s1, TRUE, NoFrame, "none")

\* RecordAccess storing a fresh record for the frame on every call.
RecordAccessRecreate(s, frame_id) ==
    IF ~CheckFrameId(frame_id)
    THEN Outcome(s, FALSE, NoFrame, "invalid_id")
    ELSE LET ns1 == (frame_id :> LRUKNode) @@ s.node_store_
             ts1 == s.current_timestamp_ + 1
         IN  Outcome(State([ns1 EXCEPT ![frame_id] = AddHistory(@, ts1)],
                           s.replacer_size_, ts1),
                     TRUE, NoFrame, "none")

\* RecordAccess stamping the access without advancing current_timestamp_.
RecordAccessNoTick(s, frame_id) ==
    IF ~CheckFrameId(frame_id)
    THEN Outcome(s, FALSE, NoFrame, "invalid_id")
    ELSE LET ns1 == IF frame_id \notin DOMAIN s.node_store_
                    THEN s.node_store_ @@ (frame_id :> LRUKNode)
                    ELSE s.node_store_
             ts1 == s.current_timestamp_
         IN  Outcome(State([ns1 EXCEPT ![frame_id] = AddHistory(@, ts1)],
                           s.replacer_size_, ts1),
                     TRUE, NoFrame, "none")

RecordAccess(s, frame_id) ==
    IF ~CheckFrameId(frame_id)
    THEN Outcome(s, FALSE, NoFrame, "invalid_id")
    ELSE LET ns1 == IF frame_id \notin DOMAIN s.node_store_
                    THEN s.node_store_ @@ (frame_id :> LRUKNode)
                    ELSE s.node_store_
             ts1 == s.current_timestamp_ + 1
         IN  Outcome(State([ns1 EXCEPT ![frame_id] = AddHistory(@, ts1)],
                           s.replacer_size_, ts1),
                     TRUE, NoFrame, "none")

-----------------------------------------------------------------------------
(* LRUKReplacer::SetEvictable                                              *)

\* SetEvictable counting every call, whatever the flag of the record is.
SetEvictableUnguarded(s, frame_id, set_evictable) ==
    IF ~CheckFrameId(frame_id)
    THEN Outcome(s, FALSE, NoFrame, "invalid_id")
    ELSE IF frame_id \notin DOMAIN s.node_store_
            \/ IsEmpty(s.node_store_[frame_id])
    THEN Outcome(s, TRUE, NoFrame, "none")
    ELSE IF set_evictable
         THEN Outcome(State([s.node_store_ EXCEPT ![frame_id] =
                                NodeSetEvictable(@, set_evictable)],
                            Inc(s.replacer_size_), s.current_timestamp_),
                      TRUE, NoFrame, "none")
         ELSE Outcome(State([s.node_store_ EXCEPT ![frame_id] =
                                NodeSetEvictable(@, set_evictable)],
                            Dec(s.replacer_size_), s.current_timestamp_),
                      TRUE, NoFrame, "none")

\* SetEvictable returning early only when the frame has no record, not when
\* its record is empty.
SetEvictableOnEmpty(s, frame_id, set_evictable) ==
    IF ~CheckFrameId(frame_id)
    THEN Outcome(s, FALSE, NoFrame, "invalid_id")
    ELSE IF frame_id \notin DOMAIN s.node_store_
    THEN Outcome(s, TRUE, NoFrame, "none")
    ELSE LET node == s.node_store_[frame_id] IN
         IF set_evictable /\ ~IsEvictable(node)
         THEN Outcome(State([s.node_store_ EXCEPT ![frame_id] =
                                NodeSetEvictable(@, set_evictable)],
                            Inc(s.replacer_size_), s.current_timestamp_),
                      TRUE, NoFrame, "none")
         ELSE IF ~set_evictable /\ IsEvictable(node)
         THEN Outcome(State([s.node_store_ EXCEPT ![frame_id] =
                                NodeSetEvictable(@, set_evictable)],
                            Dec(s.replacer_size_), s.current_timestamp_),
                      TRUE, NoFrame, "none")
         ELSE Outcome(s, TRUE, NoFrame, "none")

SetEvictable(s, frame_id, set_evictable) ==
    IF ~CheckFrameId(frame_id)
    THEN Outcome(s, FALSE, NoFrame, "invalid_id")
    ELSE IF frame_id \notin DOMAIN s.node_store_
            \/ IsEmpty(s.node_store_[frame_id])
    THEN Outcome(s, TRUE, NoFrame, "none")
    ELSE LET node == s.node_store_[frame_id] IN
         IF set_evictable /\ ~IsEvictable(node)
         THEN Outcome(State([s.node_store_ EXCEPT ![frame_id] =
                                NodeSetEvictable(@, set_evictable)],
                            Inc(s.replacer_size_), s.current_timestamp_),
                      TRUE, NoFrame, "none")
         ELSE IF ~set_evictable /\ IsEvictable(node)
         THEN Outcome(State([s.node_store_ EXCEPT ![frame_id] =
                                NodeSetEvictable(@, set_evictable)],
                            Dec(s.replacer_size_), s.current_timestamp_),
                      TRUE, NoFrame, "none")
         ELSE Outcome(s, TRUE, NoFrame, "none")

-----------------------------------------------------------------------------
(* LRUKReplacer::Remove                                                    *)

\* Remove clearing the record whether or not it is evictable.
RemoveUnchecked(s, frame_id) ==
    IF frame_id \in DOMAIN s.node_store_ /\ ~IsEmpty(s.node_store_[frame_id])
    THEN Outcome(State([s.node_store_ EXCEPT ![frame_id] = ClearNode(@)],
                       Dec(s.replacer_size_), s.current_timestamp_),
                 TRUE, NoFrame, "none")
    ELSE Outcome(s, TRUE, NoFrame, "none")

\* Remove treating an empty record like a record with accesses.
RemoveOnEmpty(s, frame_id) ==
    IF frame_id \in DOMAIN s.node_store_
    THEN IF ~IsEvictable(s.node_store_[frame_id])
         THEN Outcome(s, FALSE, NoFrame, "in_use")
         ELSE Outcome(State([s.node_store_ EXCEPT ![frame_id] = ClearNode(@)],
                            Dec(s.replacer_size_), s.current_timestamp_),
                      TRUE, NoFrame, "none")
    ELSE Outcome(s, TRUE, NoFrame, "none")

\* Remove decrementing replacer_size_ but leaving the record as it was.
RemoveNoClear(s, frame_id) ==
    IF frame_id \in DOMAIN s.node_store_ /\ ~IsEmpty(s.node_store_[frame_id])
    THEN IF ~IsEvictable(s.node_store_[frame_id])
         THEN Outcome(s, FALSE, NoFrame, "in_use")
         ELSE Outcome(State(s.node_store_, Dec(s.replacer_size_),
                            s.current_timestamp_),
                      TRUE, NoFrame, "none")
    ELSE Outcome(s, TRUE, NoFrame, "none")

Remove(s, frame_id) ==
    IF frame_id \in DOMAIN s.node_store_ /\ ~IsEmpty(s.node_store_[frame_id])
    THEN IF ~IsEvictable(s.node_store_[frame_id])
         THEN Outcome(s, FALSE, NoFrame, "in_use")
         ELSE Outcome(State([s.node_store_ EXCEPT ![frame_id] = ClearNode(@)],
                            Dec(s.replacer_size_), s.current_timestamp_),
                      TRUE, NoFrame, "none")
    ELSE Outcome(s, TRUE, NoFrame, "none")

-----------------------------------------------------------------------------
(* LRUKReplacer::Size                                                      *)

ReplacerSize(s) == s.replacer_size_

-----------------------------------------------------------------------------
(* The trie: its nodes and the heap they live in.  The classes TrieNode and *)
(* TrieNodeWithValue live in trie.h.  A node is addressed by its position   *)
(* in the heap; a trie is the address of its root.                          *)

\* Put and Remove are explored until the caller holds MaxTrieOps + 1 tries.
MaxTrieOps == 3

\* The characters of the keys.
Chars == {"a", "b"}

\* The keys handed to Put and Remove: the empty key, keys that share a prefix
\* and keys that branch at the root, at depth one and at depth two.
Keys ==
    {<<>>, <<"a">>, <<"b">>, <<"a", "a">>, <<"a", "b">>,
     <<"a", "a", "a">>, <<"a", "a", "b">>}

\* The null pointer: the root_ of an empty trie.
NullNode == 0

\* What Get returns when it finds no value (nullptr).
NoValue == 0

\* A children_ map with no entry.
NoChildren == [c \in {} |-> NullNode]

TrieNode(children) ==
    [children_ |-> children, is_value_node_ |-> FALSE, value_ |-> NoValue]

TrieNodeWithValue(children, value) ==
    [children_ |-> children, is_value_node_ |-> TRUE, value_ |-> value]

\* std::make_shared: a new object, at a new address.
MakeShared(h, node) == [heap |-> Append(h, node), id |-> Len(h) + 1]

\* TrieNode::Clone: a new node with the same children_ map and, for a node
\* with a value, the same value.
Clone(h, id) == MakeShared(h, h[id])

\* children_[c] = child on the node at address cur_.
SetChild(h, cur_, c, child) ==
    [h EXCEPT ![cur_].children_ = (c :> child) @@ @]

\* children_.erase(c) on the node at address cur_.
EraseChild(h, cur_, c) ==
    [h EXCEPT ![cur_].children_ = [d \in (DOMAIN @) \ {c} |-> @[d]]]

-----------------------------------------------------------------------------
(* Trie::Get                                                               *)

\* The walk from the node cur_ along key, from position i (1-based) on, and
\* the dynamic_cast of the node it ends at.
RECURSIVE GetWalk(_, _, _, _)
GetWalk(h, cur_, key, i) ==
    IF i > Len(key)
    THEN IF h[cur_].is_value_node_ THEN h[cur_].value_ ELSE NoValue
    ELSE IF key[i] \notin DOMAIN h[cur_].children_
    THEN NoValue
    ELSE GetWalk(h, h[cur_].children_[key[i]], key, i + 1)

Get(h, root_, key) ==
    IF root_ = NullNode THEN NoValue ELSE GetWalk(h, root_, key, 1)

-----------------------------------------------------------------------------
(* Trie::Put                                                               *)

\* Put writing into the root of the trie it is called on instead of a clone.
PutRootInPlace(h, root_) ==
    IF root_ # NullNode
    THEN [heap |-> h, id |-> root_]
    ELSE MakeShared(h, TrieNode(NoChildren))

\* Line 52: the new root is a clone of the root, or a new node.
PutNewRoot(h, root_) ==
    IF root_ # NullNode
    THEN Clone(h, root_)
    ELSE MakeShared(h, TrieNode(NoChildren))

\* Lines 53-77: the loop, at index i (0-based) with the node cur_.
RECURSIVE PutWalk(_, _, _, _, _)
PutWalk(h, cur_, key, i, value) ==
    LET c        == key[i + 1]
        children == h[cur_].children_
        m == IF i # Len(key) - 1
             THEN IF c \in DOMAIN children
                  THEN Clone(h, children[c])
                  ELSE MakeShared(h, TrieNode(NoChildren))
             ELSE IF c \in DOMAIN children
                  THEN MakeShared(h, TrieNodeWithValue(h[children[c]].children_,
                                                      value))
                  ELSE MakeShared(h, TrieNodeWithValue(NoChildren, value))
        h1 == SetChild(m.heap, cur_, c, m.id)
    IN  IF i = Len(key) - 1 THEN h1 ELSE PutWalk(h1, m.id, key, i + 1, value)

\* The heap after the call and the root_ of the trie it returns.
Put(h, root_, key, value) ==
    IF Len(key) = 0
    THEN LET m == MakeShared(h, TrieNodeWithValue(
                                    IF root_ # NullNode
                                    THEN h[root_].children_
                                    ELSE NoChildren, value))
         IN  [heap |-> m.heap, root_ |-> m.id]
    ELSE LET m == PutNewRoot(h, root_)
         IN  [heap |-> PutWalk(m.heap, m.id, key, 0, value), root_ |-> m.id]

-----------------------------------------------------------------------------
(* Trie::Remove                                                            *)

\* key.size() - 1, computed in size_t: SIZE_MAX for the empty key.
KeyLast(key) == Dec(Len(key))

\* Lines 90-100: the walk from node along key, from index i (0-based) on.
\* found is FALSE when the call returns *this at line 94.
RECURSIVE RemoveFind(_, _, _, _, _)
RemoveFind(h, node, key, i, last_val_idx) ==
    IF i >= Len(key)
    THEN [found |-> TRUE, node |-> node, last_val_idx |-> last_val_idx]
    ELSE LET c        == key[i + 1]
             children == h[node].children_
         IN  IF c \notin DOMAIN children
                \/ (i = KeyLast(key) /\ ~h[children[c]].is_value_node_)
             THEN [found |-> FALSE, node |-> node,
                   last_val_idx |-> last_val_idx]
             ELSE LET next == children[c] IN
                  RemoveFind(h, next, key, i + 1,
                             IF i # KeyLast(key)
                                /\ (h[next].is_value_node_
                                    \/ Cardinality(DOMAIN h[next].children_) > 1)
                             THEN i
                             ELSE last_val_idx)

\* Lines 109-117: the path is cloned down to index last_val_idx, where the
\* child for key[i + 1] is erased.
RECURSIVE RemoveCut(_, _, _, _, _)
RemoveCut(h, cur_, key, i, last_val_idx) ==
    LET c  == key[i + 1]
        m  == Clone(h, h[cur_].children_[c])
        h1 == IF i = last_val_idx
              THEN EraseChild(m.heap, m.id, key[i + 2])
              ELSE m.heap
        h2 == SetChild(h1, cur_, c, m.id)
    IN  IF i = last_val_idx
        THEN h2
        ELSE RemoveCut(h2, m.id, key, i + 1, last_val_idx)

\* Lines 120-130: the path is cloned and the node of the key is replaced by a
\* TrieNode with the same children.
RECURSIVE RemoveConvert(_, _, _, _)
RemoveConvert(h, cur_, key, i) ==
    IF i >= Len(key)
    THEN h
    ELSE LET c  == key[i + 1]
             m  == IF i # KeyLast(key)
                   THEN Clone(h, h[cur_].children_[c])
                   ELSE MakeShared(h, TrieNode(h[h[cur_].children_[c]].children_))
             h2 == SetChild(m.heap, cur_, c, m.id)
         IN  RemoveConvert(h2, m.id, key, i + 1)

\* The heap after the call and the root_ of the trie it returns.  With a null
\* root_ the call reads node->children_ through the null pointer, at line 92
\* for a key with characters and at line 105 for the empty key: the process
\* faults (crashed).  oob is the character key[0] yields at line 107 when the
\* key is empty, a read past the end of the string_view.
TrieRemove(h, root_, key, oob) ==
    IF root_ = NullNode
    THEN [heap |-> h, root_ |-> root_, crashed |-> TRUE]
    ELSE LET f == RemoveFind(h, root_, key, 0, KeyLast(key)) IN
         IF ~f.found
         THEN [heap |-> h, root_ |-> root_, crashed |-> FALSE]
         ELSE LET m == Clone(h, root_) IN
              [heap |->
                  IF DOMAIN h[f.node].children_ = {}
                  THEN IF f.last_val_idx = KeyLast(key)
                       THEN EraseChild(m.heap, m.id,
                                       IF Len(key) = 0 THEN oob ELSE key[1])
                       ELSE RemoveCut(m.heap, m.id, key, 0, f.last_val_idx)
                  ELSE RemoveConvert(m.heap, m.id, key, 0),
               root_ |-> m.id,
               crashed |-> FALSE]

-----------------------------------------------------------------------------
(* Spec: one caller.  `last` records the latest call: its name, the state  *)
(* it was issued in, what it returned and the error it raised.             *)

Call(op, r) ==
    [op |-> op, pre |-> cur, ok |-> r.ok, out |-> r.out, err |-> r.err]

Install(s) ==
    /\ node_store_' = s.node_store_
    /\ replacer_size_' = s.replacer_size_
    /\ current_timestamp_' = s.current_timestamp_

\* The frame of a thread that is in no call: the call and its arguments, the
\* local evict_id, what the call returns (ok, out, err), and exp, what the same
\* call returns when the calls are run one at a time in the order in which they
\* took the latch.
NoResult == [ok |-> TRUE, out |-> NoFrame, err |-> "none"]

IdleFrame ==
    [op |-> "none", frame_id |-> NoFrame, flag |-> FALSE, evict_id |-> NoFrame,
     ok |-> TRUE, out |-> NoFrame, err |-> "none", exp |-> NoResult]

ThreadsInit ==
    /\ latch_ = 0
    /\ pc = [t \in Threads |-> "idle"]
    /\ frame = [t \in Threads |-> IdleFrame]
    /\ lin = InitState

\* What Get returns on the trie with root root_, for every key.
Snapshot(h, root_) == [key \in Keys |-> Get(h, root_, key)]

\* The caller holds one trie, Trie(): its root_ is null and no node exists.
\* roots lists the tries the caller holds, snap what Get returned on each of
\* them when it was created, and tlast records the latest call: its name and
\* arguments, the tries it was called on and returned (positions in roots),
\* the heap it was issued in, and whether the process faulted in it.
TriesInit ==
    /\ heap = <<>>
    /\ roots = <<NullNode>>
    /\ snap = <<Snapshot(<<>>, NullNode)>>
    /\ tlast = [op |-> "none", key |-> <<>>, value |-> NoValue, src |-> 1,
                dst |-> 1, heap |-> <<>>, crashed |-> FALSE]

Init ==
    /\ node_store_ = EmptyStore
    /\ replacer_size_ = 0
    /\ current_timestamp_ = 0
    /\ last = [op |-> "none", pre |-> InitState, ok |-> TRUE, out |-> NoFrame,
               err |-> "none"]
    /\ ThreadsInit
    /\ TriesInit

CallRecordAccess ==
    \E frame_id \in InputIds :
        /\ current_timestamp_ < MaxClock
        /\ LET r == RecordAccess(cur, frame_id) IN
               /\ Install(r.st)
               /\ last' = Call("RecordAccess", r)
        /\ UNCHANGED <<threads, tries>>

CallSetEvictable ==
    \E frame_id \in InputIds, set_evictable \in BOOLEAN :
        /\ LET r == SetEvictable(cur, frame_id, set_evictable) IN
               /\ Install(r.st)
               /\ last' = Call("SetEvictable", r)
        /\ UNCHANGED <<threads, tries>>

CallRemove ==
    \E frame_id \in InputIds :
        /\ LET r == Remove(cur, frame_id) IN
               /\ Install(r.st)
               /\ last' = Call("Remove", r)
        /\ UNCHANGED <<threads, tries>>

\* The scan order of the unordered_map is unspecified: every order is explored.
CallEvict ==
    \E r \in {Evict(cur, order) : order \in ScanOrders(DOMAIN node_store_)} :
        /\ Install(r.st)
        /\ last' = Call("Evict", r)
        /\ UNCHANGED <<threads, tries>>

CallSize ==
    /\ last' = Call("Size", Outcome(cur, TRUE, ReplacerSize(cur), "none"))
    /\ UNCHANGED <<replacer, threads, tries>>

Next ==
    \/ CallRecordAccess
    \/ CallSetEvictable
    \/ CallRemove
    \/ CallEvict
    \/ CallSize

Spec == Init /\ [][Next]_vars

-----------------------------------------------------------------------------
(* Properties of Spec.                                                     *)

History(s, fid) == s.node_store_[fid].history_

\* The frame records whose evictable flag is true.
EvictableFrames(s) == {fid \in Nodes(s) : s.node_store_[fid].is_evictable_}

\* The evictable, non-empty records, with fewer than k_ and with k_ or more
\* recorded accesses.
ShortFrames(s) ==
    {fid \in EvictableFrames(s) :
        Len(History(s, fid)) > 0 /\ Len(History(s, fid)) < k_}

FullFrames(s) ==
    {fid \in EvictableFrames(s) : Len(History(s, fid)) >= k_}

Oldest(s, fid) == History(s, fid)[1]

Latest(s, fid) == History(s, fid)[Len(History(s, fid))]

KthMostRecent(s, fid) == History(s, fid)[Len(History(s, fid)) - k_ + 1]

InvalidIds == {id \in InputIds : id < 0 \/ id >= max_num_frames_}

\* C1: after any sequence of calls, failed ones included, Size() equals the
\* number of frame records whose evictable flag is true.
C1_SizeCountsEvictable ==
    ReplacerSize(cur) = Cardinality(EvictableFrames(cur))

\* A call has just failed, a frame has been evicted or removed before, and one
\* frame is evictable.
C1_Witness ==
    /\ last.err = "in_use"
    /\ ReplacerSize(cur) = 1
    /\ \E fid \in Nodes(cur) : IsEmpty(node_store_[fid])

\* C2: when an evictable non-empty frame has fewer than k_ accesses, Evict
\* returns a frame with fewer than k_ accesses, never one with k_ or more,
\* whatever the order of the scan.
C2_ShortBeforeFull ==
    (last.op = "Evict" /\ ShortFrames(last.pre) # {})
        => /\ last.ok
           /\ last.out \in ShortFrames(last.pre)
           /\ last.out \notin FullFrames(last.pre)

\* Evict has returned a frame with fewer than k_ accesses although a frame
\* with k_ accesses, all of them older, was evictable.
C2_Witness ==
    /\ last.op = "Evict"
    /\ last.ok
    /\ last.out \in ShortFrames(last.pre)
    /\ \E fid \in FullFrames(last.pre) :
           Latest(last.pre, fid) < Oldest(last.pre, last.out)

\* C3: when an evictable frame has fewer than k_ accesses, Evict returns, among
\* the evictable frames with fewer than k_ accesses, the one whose earliest
\* recorded access is the smallest.
C3_ShortTieBreak ==
    (last.op = "Evict" /\ ShortFrames(last.pre) # {})
        => /\ last.ok
           /\ last.out \in ShortFrames(last.pre)
           /\ \A fid \in ShortFrames(last.pre) \ {last.out} :
                  Oldest(last.pre, last.out) < Oldest(last.pre, fid)

\* The accesses 0, 1, 0, 2 with every frame evictable: frame 0 has two
\* accesses, frames 1 and 2 one each, and Evict has returned frame 1.
C3_Witness ==
    /\ last.op = "Evict"
    /\ last.out = 1
    /\ Nodes(last.pre) = {0, 1, 2}
    /\ EvictableFrames(last.pre) = {0, 1, 2}
    /\ History(last.pre, 0) = <<1, 3>>
    /\ History(last.pre, 1) = <<2>>
    /\ History(last.pre, 2) = <<4>>

\* C4: when every evictable non-empty frame has k_ or more accesses, Evict
\* returns the evictable frame whose k_-th most recent access, the oldest entry
\* of its history, is the smallest.
C4_FullTieBreak ==
    (last.op = "Evict" /\ ShortFrames(last.pre) = {} /\ FullFrames(last.pre) # {})
        => /\ last.ok
           /\ last.out \in FullFrames(last.pre)
           /\ KthMostRecent(last.pre, last.out) = Oldest(last.pre, last.out)
           /\ \A fid \in FullFrames(last.pre) \ {last.out} :
                  /\ KthMostRecent(last.pre, last.out) < KthMostRecent(last.pre, fid)
                  /\ Oldest(last.pre, last.out) < Oldest(last.pre, fid)

\* Evict has chosen between two frames with k_ accesses and returned the one
\* that was accessed last.
C4_Witness ==
    /\ last.op = "Evict"
    /\ last.ok
    /\ ShortFrames(last.pre) = {}
    /\ \E fid \in FullFrames(last.pre) \ {last.out} :
           Latest(last.pre, fid) < Latest(last.pre, last.out)

\* C5: Evict never returns an id whose record was non-evictable or empty in the
\* state Evict was called in.
C5_VictimWasCandidate ==
    (last.op = "Evict" /\ last.ok)
        => /\ last.out \in Nodes(last.pre)
           /\ IsEvictable(last.pre.node_store_[last.out])
           /\ ~IsEmpty(last.pre.node_store_[last.out])

\* Evict has returned a frame while a non-evictable frame with an older access
\* and an empty record were in the store.
C5_Witness ==
    /\ last.op = "Evict"
    /\ last.ok
    /\ \E fid \in Nodes(last.pre) : IsEmpty(last.pre.node_store_[fid])
    /\ \E fid \in Nodes(last.pre) :
           /\ ~IsEmpty(last.pre.node_store_[fid])
           /\ ~IsEvictable(last.pre.node_store_[fid])
           /\ Oldest(last.pre, fid) < Oldest(last.pre, last.out)

\* The frames Remove must refuse: tracked, with a non-empty history, and not
\* evictable.
PinnedFrames(s) ==
    {fid \in Nodes(s) : Len(History(s, fid)) > 0 /\ fid \notin EvictableFrames(s)}

\* C8: Remove(id) of a tracked, non-empty, non-evictable frame fails with the
\* frame-in-use error and changes nothing: Size(), every record and the clock
\* are as before the call.
C8_RemovePinnedFails ==
    /\ \A frame_id \in PinnedFrames(cur) :
           /\ Remove(cur, frame_id).err = "in_use"
           /\ Remove(cur, frame_id).st = cur
    /\ \A frame_id \in InputIds \ PinnedFrames(cur) :
           Remove(cur, frame_id).err = "none"
    /\ (last.op = "Remove" /\ last.err = "in_use")
           => /\ cur = last.pre
              /\ PinnedFrames(last.pre) # {}
    /\ (last.op = "Remove" /\ last.err = "none")
           => PinnedFrames(cur) = PinnedFrames(last.pre)

\* Remove has failed with the frame-in-use error while another frame was
\* evictable.
C8_Witness ==
    /\ last.op = "Remove"
    /\ last.err = "in_use"
    /\ ReplacerSize(cur) >= 1

\* C9: RecordAccess and SetEvictable with an id outside [0, capacity), the ids
\* capacity and capacity + 1 among them, fail with the invalid-identifier error
\* and leave the state unchanged.
C9_InvalidIdRejected ==
    /\ {-1, max_num_frames_, max_num_frames_ + 1} \subseteq InvalidIds
    /\ \A frame_id \in InvalidIds :
           /\ RecordAccess(cur, frame_id).err = "invalid_id"
           /\ RecordAccess(cur, frame_id).st = cur
           /\ \A flag \in BOOLEAN :
                  /\ SetEvictable(cur, frame_id, flag).err = "invalid_id"
                  /\ SetEvictable(cur, frame_id, flag).st = cur
    /\ \A frame_id \in InputIds \ InvalidIds :
           /\ RecordAccess(cur, frame_id).err = "none"
           /\ \A flag \in BOOLEAN : SetEvictable(cur, frame_id, flag).err = "none"
    /\ last.err = "invalid_id"
           => /\ last.op \in {"RecordAccess", "SetEvictable"}
              /\ cur = last.pre
    /\ Nodes(cur) \cap InvalidIds = {}

\* RecordAccess has failed with the invalid-identifier error in a state with
\* frame records and an advanced clock.
C9_Witness ==
    /\ last.op = "RecordAccess"
    /\ last.err = "invalid_id"
    /\ Nodes(cur) # {}
    /\ current_timestamp_ > 0

\* The frame a successful RecordAccess was called on: the one whose record it
\* created or changed.
Accessed(fid) ==
    /\ last.op = "RecordAccess"
    /\ last.ok
    /\ fid \notin Nodes(last.pre) \/ last.pre.node_store_[fid] # node_store_[fid]

\* C10: no history is ever longer than k_; a RecordAccess on a frame that holds
\* k_ entries drops the oldest before it appends the new clock value.
C10_HistoryBounded ==
    \A fid \in Nodes(cur) :
        /\ Len(History(cur, fid)) <= k_
        /\ (Accessed(fid) /\ fid \in Nodes(last.pre)
                /\ Len(History(last.pre, fid)) = k_)
               => History(cur, fid) =
                      Append(Tail(History(last.pre, fid)), current_timestamp_)

\* RecordAccess has been called on a frame that held k_ entries.
C10_Witness ==
    \E fid \in Nodes(cur) :
        /\ Accessed(fid)
        /\ fid \in Nodes(last.pre)
        /\ Len(History(last.pre, fid)) = k_

\* The frames with a record that holds at least one access.
TrackedFrames(s) == {fid \in Nodes(s) : ~IsEmpty(s.node_store_[fid])}

\* C11: SetEvictable is idempotent.  Calling it twice in a row with the same id
\* and flag leaves the state the first call left, and the first call changes
\* Size() by exactly one when it changes the flag of a tracked, non-empty
\* frame and by nothing otherwise.
C11_SetEvictableIdempotent ==
    /\ \A frame_id \in InputIds, flag \in BOOLEAN :
           SetEvictable(SetEvictable(cur, frame_id, flag).st, frame_id, flag)
               = SetEvictable(cur, frame_id, flag)
    /\ last.op = "SetEvictable" =>
           LET changed == {fid \in Nodes(cur) :
                              node_store_[fid] # last.pre.node_store_[fid]}
           IN  /\ Nodes(cur) = Nodes(last.pre)
               /\ Cardinality(changed) <= 1
               /\ changed = {} => ReplacerSize(cur) = ReplacerSize(last.pre)
               /\ \A fid \in changed :
                      /\ fid \in TrackedFrames(last.pre)
                      /\ History(cur, fid) = History(last.pre, fid)
                      /\ ReplacerSize(cur) =
                             IF fid \in EvictableFrames(cur)
                             THEN ReplacerSize(last.pre) + 1
                             ELSE ReplacerSize(last.pre) - 1

\* SetEvictable has just made a second frame evictable: the same call again
\* finds the flag set.
C11_Witness ==
    /\ last.op = "SetEvictable"
    /\ ReplacerSize(last.pre) = 1
    /\ ReplacerSize(cur) = 2

\* C12: SetEvictable on a valid id that has no record, or whose record is
\* empty, succeeds and changes nothing; no SetEvictable creates a record.
C12_SetEvictableUntracked ==
    /\ \A frame_id \in (InputIds \ InvalidIds) \ TrackedFrames(cur) :
           \A flag \in BOOLEAN :
               SetEvictable(cur, frame_id, flag)
                   = Outcome(cur, TRUE, NoFrame, "none")
    /\ last.op = "SetEvictable" =>
           /\ Nodes(cur) = Nodes(last.pre)
           /\ \A fid \in Nodes(cur) \ TrackedFrames(last.pre) :
                  node_store_[fid] = last.pre.node_store_[fid]

\* SetEvictable has succeeded in a state whose only record is empty: the id it
\* was given had an empty record or none.
C12_Witness ==
    /\ last.op = "SetEvictable"
    /\ last.err = "none"
    /\ cur = last.pre
    /\ Nodes(cur) # {}
    /\ TrackedFrames(cur) = {}

\* C13: Remove on an id that has no record or an empty record, ids outside
\* [0, capacity) included, succeeds and changes nothing; Remove applied twice
\* to an evictable frame decrements Size() exactly once.
C13_RemoveUntracked ==
    /\ \A frame_id \in InputIds \ TrackedFrames(cur) :
           Remove(cur, frame_id) = Outcome(cur, TRUE, NoFrame, "none")
    /\ \A frame_id \in EvictableFrames(cur) :
           LET once  == Remove(cur, frame_id)
               twice == Remove(once.st, frame_id)
           IN  /\ once.err = "none"
               /\ ReplacerSize(once.st) = ReplacerSize(cur) - 1
               /\ twice = Outcome(once.st, TRUE, NoFrame, "none")

\* Remove has just cleared an evictable frame: its record is empty now, and
\* ids outside the range are among the ids Remove is given.
C13_Witness ==
    /\ last.op = "Remove"
    /\ ReplacerSize(cur) = ReplacerSize(last.pre) - 1
    /\ \E fid \in Nodes(cur) : IsEmpty(node_store_[fid])
    /\ InvalidIds # {}

\* C14: Evict returns no victim exactly when the evictable count is zero, and
\* then changes nothing; otherwise it returns one id, clears that record,
\* decrements Size() by one and leaves the other records and the clock alone.
C14_EvictOutcome ==
    last.op = "Evict" =>
        /\ last.ok = (ReplacerSize(last.pre) > 0)
        /\ ~last.ok => (cur = last.pre /\ last.out = NoFrame)
        /\ last.ok =>
               /\ last.out \in Nodes(last.pre)
               /\ node_store_ = [last.pre.node_store_ EXCEPT ![last.out] =
                                    [history_ |-> <<>>, is_evictable_ |-> FALSE]]
               /\ node_store_ # last.pre.node_store_
               /\ replacer_size_ = last.pre.replacer_size_ - 1
               /\ current_timestamp_ = last.pre.current_timestamp_

\* Evict has returned one of two evictable frames of a full store.
C14_Witness ==
    /\ last.op = "Evict"
    /\ last.ok
    /\ ReplacerSize(last.pre) = 2
    /\ Cardinality(Nodes(cur)) = max_num_frames_

\* The record of fid in state s is empty and not evictable, and the next
\* RecordAccess(fid) gives it one access, the new clock value, and leaves it
\* non-evictable.
Cleared(s, fid) ==
    /\ fid \in Nodes(s)
    /\ IsEmpty(s.node_store_[fid])
    /\ ~IsEvictable(s.node_store_[fid])
    /\ RecordAccess(s, fid).st.node_store_[fid]
           = [history_ |-> <<s.current_timestamp_ + 1>>, is_evictable_ |-> FALSE]

\* C15: after Evict has returned a frame or Remove has cleared it, its record
\* is empty and non-evictable; the next RecordAccess on it starts a history of
\* exactly one entry and leaves it non-evictable, so that it cannot be evicted
\* until SetEvictable(id, true) is called again.
C15_Lifecycle ==
    /\ (last.op = "Evict" /\ last.ok) => Cleared(cur, last.out)
    /\ \A fid \in EvictableFrames(cur) : Cleared(Remove(cur, fid).st, fid)
    /\ \A fid \in Nodes(cur) :
           (Accessed(fid) /\ fid \in Nodes(last.pre)
                /\ IsEmpty(last.pre.node_store_[fid]))
               => /\ History(cur, fid) = <<current_timestamp_>>
                  /\ fid \notin EvictableFrames(cur)
                  /\ \A order \in ScanOrders(Nodes(cur)) :
                         Evict(cur, order).out # fid
                  /\ fid \in EvictableFrames(SetEvictable(cur, fid, TRUE).st)

\* RecordAccess has been called on a frame whose record had been cleared.
C15_Witness ==
    \E fid \in Nodes(cur) :
        /\ Accessed(fid)
        /\ fid \in Nodes(last.pre)
        /\ IsEmpty(last.pre.node_store_[fid])
        /\ ReplacerSize(cur) >= 1

\* C16: a successful RecordAccess advances the clock by exactly one and changes
\* only the history of the frame it is given: not Size(), not the evictable
\* flag of that frame, and no other record.
C16_RecordAccessFrame ==
    /\ \A frame_id \in InputIds \ InvalidIds :
           LET r == RecordAccess(cur, frame_id) IN
               /\ r.ok
               /\ r.st.current_timestamp_ = current_timestamp_ + 1
               /\ ReplacerSize(r.st) = ReplacerSize(cur)
               /\ Nodes(r.st) = Nodes(cur) \cup {frame_id}
               /\ \A fid \in Nodes(cur) \ {frame_id} :
                      r.st.node_store_[fid] = node_store_[fid]
               /\ IsEvictable(r.st.node_store_[frame_id])
                      = (frame_id \in EvictableFrames(cur))
               /\ Latest(r.st, frame_id) = current_timestamp_ + 1
    /\ (last.op = "RecordAccess" /\ last.ok) =>
           /\ current_timestamp_ = last.pre.current_timestamp_ + 1
           /\ replacer_size_ = last.pre.replacer_size_
           /\ Cardinality({fid \in Nodes(cur) : Accessed(fid)}) = 1
           /\ EvictableFrames(cur) = EvictableFrames(last.pre)

\* RecordAccess has been called on an evictable frame while another frame had
\* a record.
C16_Witness ==
    \E fid \in EvictableFrames(last.pre) :
        /\ Accessed(fid)
        /\ Nodes(last.pre) \ {fid} # {}

\* C17: every history is strictly increasing and no clock value is in the
\* histories of two frames, so that the minimum Evict looks for is attained by
\* exactly one frame.
C17_StampsUnique ==
    /\ \A fid \in Nodes(cur) :
           /\ \A i, j \in DOMAIN History(cur, fid) :
                  i < j => History(cur, fid)[i] < History(cur, fid)[j]
           /\ \A i \in DOMAIN History(cur, fid) :
                  /\ History(cur, fid)[i] >= 1
                  /\ History(cur, fid)[i] <= current_timestamp_
    /\ \A f, g \in Nodes(cur) :
           f # g => \A i \in DOMAIN History(cur, f), j \in DOMAIN History(cur, g) :
                        History(cur, f)[i] # History(cur, g)[j]
    /\ \A f, g \in ShortFrames(cur) : f # g => Oldest(cur, f) # Oldest(cur, g)
    /\ \A f, g \in FullFrames(cur) :
           f # g => KthMostRecent(cur, f) # KthMostRecent(cur, g)

\* Two frames hold k_ accesses each and both are evictable.
C17_Witness ==
    /\ Cardinality(FullFrames(cur)) = 2
    /\ current_timestamp_ = 2 * k_

\* C18: every record belongs to an id in [0, capacity); Size() never exceeds
\* the capacity and never goes below zero: no call decrements the counter
\* when it is zero.
C18_SizeInRange ==
    /\ Nodes(cur) \subseteq 0 .. (max_num_frames_ - 1)
    /\ ReplacerSize(cur) >= 0
    /\ ReplacerSize(cur) <= max_num_frames_
    /\ ReplacerSize(last.pre) = 0 => ReplacerSize(cur) \in {0, 1}
    /\ ReplacerSize(cur) = 0 =>
           \A frame_id \in InputIds :
               /\ ReplacerSize(Remove(cur, frame_id).st) = 0
               /\ ReplacerSize(SetEvictable(cur, frame_id, FALSE).st) = 0

\* Evict has taken the last evictable frame of a full store: Size() is zero
\* and the store holds as many records as the capacity allows.
C18_Witness ==
    /\ last.op = "Evict"
    /\ last.ok
    /\ ReplacerSize(cur) = 0
    /\ Cardinality(Nodes(cur)) = max_num_frames_

-----------------------------------------------------------------------------
(* SpecConc: several caller threads.  A call of RecordAccess, SetEvictable, *)
(* Remove or Evict waits for latch_ (pc = "lock"), runs its body statement   *)
(* by statement and releases latch_ when it returns; Size reads             *)
(* replacer_size_ without taking latch_.  lin is the state reached by        *)
(* running the calls one at a time in the order in which they took latch_.  *)

\* The ids the threads hand to the operations: two frames and the first id out
\* of range.
ConcIds == {0, 1, max_num_frames_}

ConcCalls ==
    {[op |-> "RecordAccess", frame_id |-> i, flag |-> FALSE] : i \in ConcIds}
    \cup {[op |-> "SetEvictable", frame_id |-> i, flag |-> b] :
              i \in ConcIds, b \in BOOLEAN}
    \cup {[op |-> "Remove", frame_id |-> i, flag |-> FALSE] : i \in ConcIds}
    \cup {[op |-> "Evict", frame_id |-> NoFrame, flag |-> FALSE]}

\* The calls that run one at a time, applied to the state s.
Sequential(s, c) ==
    CASE c.op = "RecordAccess" -> {RecordAccess(s, c.frame_id)}
      [] c.op = "SetEvictable" -> {SetEvictable(s, c.frame_id, c.flag)}
      [] c.op = "Remove" -> {Remove(s, c.frame_id)}
      [] c.op = "Evict" -> {Evict(s, order) : order \in ScanOrders(Nodes(s))}

\* The first statement after the scoped_lock of each operation.
Entry(op) ==
    CASE op = "RecordAccess" -> "ra_check"
      [] op = "SetEvictable" -> "se_check"
      [] op = "Remove" -> "rm_find"
      [] op = "Evict" -> "ev_scan"

Waiting(op) ==
    Cardinality({t \in Threads : pc[t] = "lock" /\ frame[t].op = op})

\* The call of thread t starts: it has not reached the latch yet.
Invoke(t) ==
    /\ pc[t] = "idle"
    /\ \E c \in ConcCalls :
           /\ c.op = "RecordAccess"
                  => lin.current_timestamp_ + Waiting("RecordAccess") < ConcClock
           /\ frame' = [frame EXCEPT ![t] =
                            [IdleFrame EXCEPT !.op = c.op,
                                              !.frame_id = c.frame_id,
                                              !.flag = c.flag]]
    /\ pc' = [pc EXCEPT ![t] = "lock"]
    /\ UNCHANGED <<replacer, latch_, lin, last, tries>>

\* std::scoped_lock<std::mutex> lock(latch_), left out of RecordAccess.
ScopedLockNotInRecordAccess(t, op) ==
    IF op = "RecordAccess"
    THEN latch_' = latch_
    ELSE latch_ = 0 /\ latch_' = t

\* std::scoped_lock<std::mutex> lock(latch_): blocks until the latch is free.
ScopedLock(t, op) ==
    latch_ = 0 /\ latch_' = t

\* The destructor of the scoped_lock releases the latch its constructor took.
ScopedUnlock(t) ==
    latch_' = IF latch_ = t THEN 0 ELSE latch_

Lock(t) ==
    /\ pc[t] = "lock"
    /\ ScopedLock(t, frame[t].op)
    /\ \E r \in Sequential(lin, frame[t]) :
           /\ lin' = r.st
           /\ frame' = [frame EXCEPT ![t].exp =
                            [ok |-> r.ok, out |-> r.out, err |-> r.err]]
    /\ pc' = [pc EXCEPT ![t] = Entry(frame[t].op)]
    /\ UNCHANGED <<replacer, last, tries>>

\* A step of the body of thread t's call: it goes to the statement `to`.
Goto(t, to) ==
    /\ pc' = [pc EXCEPT ![t] = to]
    /\ UNCHANGED <<latch_, lin, last, tries>>

\* The call of thread t ends with the results ok, out and the error err.
Finish(t, ok, out, err) ==
    /\ frame' = [frame EXCEPT ![t].ok = ok, ![t].out = out, ![t].err = err]
    /\ Goto(t, "ret")

\* RecordAccess, line 49: CheckFrameId.
RaCheck(t) ==
    /\ pc[t] = "ra_check"
    /\ IF CheckFrameId(frame[t].frame_id)
       THEN Goto(t, "ra_find") /\ UNCHANGED frame
       ELSE Finish(t, FALSE, NoFrame, "invalid_id")
    /\ UNCHANGED replacer

\* RecordAccess, lines 52-54: the record is created when it is absent.
RaFind(t) ==
    /\ pc[t] = "ra_find"
    /\ node_store_' = IF frame[t].frame_id \notin DOMAIN node_store_
                      THEN node_store_ @@ (frame[t].frame_id :> LRUKNode)
                      ELSE node_store_
    /\ Goto(t, "ra_tick")
    /\ UNCHANGED <<replacer_size_, current_timestamp_, frame>>

\* RecordAccess, line 55: current_timestamp_++.
RaTick(t) ==
    /\ pc[t] = "ra_tick"
    /\ current_timestamp_' = current_timestamp_ + 1
    /\ Goto(t, "ra_add")
    /\ UNCHANGED <<node_store_, replacer_size_, frame>>

\* RecordAccess, line 56: AddHistory(current_timestamp_).
RaAdd(t) ==
    /\ pc[t] = "ra_add"
    /\ node_store_' = [node_store_ EXCEPT ![frame[t].frame_id] =
                           AddHistory(@, current_timestamp_)]
    /\ Finish(t, TRUE, NoFrame, "none")
    /\ UNCHANGED <<replacer_size_, current_timestamp_>>

\* SetEvictable, line 62: CheckFrameId.
SeCheck(t) ==
    /\ pc[t] = "se_check"
    /\ IF CheckFrameId(frame[t].frame_id)
       THEN Goto(t, "se_find") /\ UNCHANGED frame
       ELSE Finish(t, FALSE, NoFrame, "invalid_id")
    /\ UNCHANGED replacer

\* SetEvictable, lines 63-65: return when the record is absent or empty.
SeFind(t) ==
    /\ pc[t] = "se_find"
    /\ IF frame[t].frame_id \notin DOMAIN node_store_
          \/ IsEmpty(node_store_[frame[t].frame_id])
       THEN Finish(t, TRUE, NoFrame, "none")
       ELSE Goto(t, "se_count") /\ UNCHANGED frame
    /\ UNCHANGED replacer

\* SetEvictable, lines 67-68 and 70-71: the tests and the change of the count.
SeCount(t) ==
    /\ pc[t] = "se_count"
    /\ LET node == node_store_[frame[t].frame_id] IN
           IF frame[t].flag /\ ~IsEvictable(node)
           THEN /\ replacer_size_' = Inc(replacer_size_)
                /\ Goto(t, "se_flag") /\ UNCHANGED frame
           ELSE IF ~frame[t].flag /\ IsEvictable(node)
           THEN /\ replacer_size_' = Dec(replacer_size_)
                /\ Goto(t, "se_flag") /\ UNCHANGED frame
           ELSE /\ UNCHANGED replacer_size_
                /\ Finish(t, TRUE, NoFrame, "none")
    /\ UNCHANGED <<node_store_, current_timestamp_>>

\* SetEvictable, lines 69 and 72: node.SetEvictable(set_evictable).
SeFlag(t) ==
    /\ pc[t] = "se_flag"
    /\ node_store_' = [node_store_ EXCEPT ![frame[t].frame_id] =
                           NodeSetEvictable(@, frame[t].flag)]
    /\ Finish(t, TRUE, NoFrame, "none")
    /\ UNCHANGED <<replacer_size_, current_timestamp_>>

\* Remove, lines 79-83: the lookup and the throw for a non-evictable record.
RmFind(t) ==
    /\ pc[t] = "rm_find"
    /\ IF frame[t].frame_id \in DOMAIN node_store_
          /\ ~IsEmpty(node_store_[frame[t].frame_id])
       THEN IF ~IsEvictable(node_store_[frame[t].frame_id])
            THEN Finish(t, FALSE, NoFrame, "in_use")
            ELSE Goto(t, "rm_clear") /\ UNCHANGED frame
       ELSE Finish(t, TRUE, NoFrame, "none")
    /\ UNCHANGED replacer

\* Remove, line 84: node.ClearNode().
RmClear(t) ==
    /\ pc[t] = "rm_clear"
    /\ node_store_' = [node_store_ EXCEPT ![frame[t].frame_id] = ClearNode(@)]
    /\ Goto(t, "rm_dec")
    /\ UNCHANGED <<replacer_size_, current_timestamp_, frame>>

\* Remove, line 85: replacer_size_--.
RmDec(t) ==
    /\ pc[t] = "rm_dec"
    /\ replacer_size_' = Dec(replacer_size_)
    /\ Finish(t, TRUE, NoFrame, "none")
    /\ UNCHANGED <<node_store_, current_timestamp_>>

\* Evict, lines 12-37: the scan, in any order, and the test of evict_id.
EvScan(t) ==
    /\ pc[t] = "ev_scan"
    /\ \E evict_id \in {EvictScan(node_store_, order, 1, EvictLocals).evict_id :
                            order \in ScanOrders(DOMAIN node_store_)} :
           IF evict_id # NoFrame
           THEN /\ frame' = [frame EXCEPT ![t].evict_id = evict_id]
                /\ Goto(t, "ev_dec")
           ELSE Finish(t, FALSE, NoFrame, "none")
    /\ UNCHANGED replacer

\* Evict, line 39: replacer_size_--.
EvDec(t) ==
    /\ pc[t] = "ev_dec"
    /\ replacer_size_' = Dec(replacer_size_)
    /\ Goto(t, "ev_clear")
    /\ UNCHANGED <<node_store_, current_timestamp_, frame>>

\* Evict, lines 40-43: ClearNode and the out parameter.
EvClear(t) ==
    /\ pc[t] = "ev_clear"
    /\ node_store_' = [node_store_ EXCEPT ![frame[t].evict_id] = ClearNode(@)]
    /\ Finish(t, TRUE, frame[t].evict_id, "none")
    /\ UNCHANGED <<replacer_size_, current_timestamp_>>

\* The call returns (or its exception leaves it): the scoped_lock is destroyed.
Return(t) ==
    /\ pc[t] = "ret"
    /\ ScopedUnlock(t)
    /\ pc' = [pc EXCEPT ![t] = "idle"]
    /\ frame' = [frame EXCEPT ![t] = IdleFrame]
    /\ UNCHANGED <<replacer, lin, last, tries>>

\* Size, line 89: the call starts; no latch is taken.
SizeInvoke(t) ==
    /\ pc[t] = "idle"
    /\ pc' = [pc EXCEPT ![t] = "size"]
    /\ frame' = [frame EXCEPT ![t] = [IdleFrame EXCEPT !.op = "Size"]]
    /\ UNCHANGED <<replacer, latch_, lin, last, tries>>

\* Size, line 89: return replacer_size_, whatever it holds at this step.
SizeRead(t) ==
    /\ pc[t] = "size"
    /\ pc' = [pc EXCEPT ![t] = "idle"]
    /\ frame' = [frame EXCEPT ![t] = IdleFrame]
    /\ UNCHANGED <<replacer, latch_, lin, last, tries>>

NextConc ==
    \E t \in Threads :
        \/ Invoke(t)
        \/ Lock(t)
        \/ RaCheck(t)
        \/ RaFind(t)
        \/ RaTick(t)
        \/ RaAdd(t)
        \/ SeCheck(t)
        \/ SeFind(t)
        \/ SeCount(t)
        \/ SeFlag(t)
        \/ RmFind(t)
        \/ RmClear(t)
        \/ RmDec(t)
        \/ EvScan(t)
        \/ EvDec(t)
        \/ EvClear(t)
        \/ Return(t)
        \/ SizeInvoke(t)
        \/ SizeRead(t)

SpecConc == Init /\ [][NextConc]_vars

-----------------------------------------------------------------------------
(* Properties of SpecConc.                                                 *)

InBody(t) == pc[t] \notin {"idle", "lock", "size"}

\* C6: every operation, Size included, holds the latch for its whole duration:
\* Size never reads the evictable count while another thread is inside
\* SetEvictable, Evict or Remove.
C6_NoSizeReadDuringUpdate ==
    \A t \in Threads :
        pc[t] = "size"
            => ~\E u \in Threads \ {t} :
                   /\ InBody(u)
                   /\ latch_ = u
                   /\ frame[u].op \in {"SetEvictable", "Evict", "Remove"}

\* C7: RecordAccess, SetEvictable, Remove and Evict are linearizable: whenever
\* no call is in its body the state is the one reached by running the calls one
\* at a time in the order in which they took the latch, and every call returns
\* what it returns in that sequential run.
C7_Linearizable ==
    /\ (\A t \in Threads : ~InBody(t)) => cur = lin
    /\ \A t \in Threads :
           pc[t] = "ret"
               => [ok |-> frame[t].ok, out |-> frame[t].out,
                   err |-> frame[t].err] = frame[t].exp

\* An Evict that had to wait for the latch returns a frame while another call
\* is waiting for the latch.
C7_Witness ==
    \E t \in Threads, u \in Threads :
        /\ t # u
        /\ pc[t] = "ret"
        /\ frame[t].op = "Evict"
        /\ frame[t].ok
        /\ pc[u] = "lock"
        /\ frame[u].op = "RecordAccess"
        /\ frame[u].frame_id = frame[t].out

-----------------------------------------------------------------------------
(* SpecTrie: a caller of the trie.  It keeps every trie it was returned and *)
(* calls Put and Remove on any of them.  Each Put stores a value that no    *)
(* earlier Put stored.                                                      *)

CallPut ==
    /\ ~tlast.crashed
    /\ Len(roots) <= MaxTrieOps
    /\ \E src \in DOMAIN roots, key \in Keys :
           LET value == Len(roots)
               r     == Put(heap, roots[src], key, value)
           IN  /\ heap' = r.heap
               /\ roots' = Append(roots, r.root_)
               /\ snap' = Append(snap, Snapshot(r.heap, r.root_))
               /\ tlast' = [op |-> "Put", key |-> key, value |-> value,
                            src |-> src, dst |-> Len(roots) + 1,
                            heap |-> heap, crashed |-> FALSE]
    /\ UNCHANGED <<replacer, threads, last>>

CallTrieRemove ==
    /\ ~tlast.crashed
    /\ Len(roots) <= MaxTrieOps
    /\ \E src \in DOMAIN roots, key \in Keys, oob \in Chars :
           LET r == TrieRemove(heap, roots[src], key, oob) IN
               IF r.crashed
               THEN /\ tlast' = [op |-> "Remove", key |-> key,
                                 value |-> NoValue, src |-> src, dst |-> src,
                                 heap |-> heap, crashed |-> TRUE]
                    /\ UNCHANGED <<heap, roots, snap>>
               ELSE /\ heap' = r.heap
                    /\ roots' = Append(roots, r.root_)
                    /\ snap' = Append(snap, Snapshot(r.heap, r.root_))
                    /\ tlast' = [op |-> "Remove", key |-> key,
                                 value |-> NoValue, src |-> src,
                                 dst |-> Len(roots) + 1, heap |-> heap,
                                 crashed |-> FALSE]
    /\ UNCHANGED <<replacer, threads, last>>

NextTrie ==
    \/ CallPut
    \/ CallTrieRemove

SpecTrie == Init /\ [][NextTrie]_vars

-----------------------------------------------------------------------------
(* Properties of SpecTrie.                                                 *)

\* The trie below the node id as a value: two tries are equal when these are.
RECURSIVE Tree(_, _)
Tree(h, id) ==
    [is_value_node_ |-> h[id].is_value_node_,
     value_ |-> h[id].value_,
     children_ |-> [c \in DOMAIN h[id].children_ |->
                       Tree(h, h[id].children_[c])]]

TrieValue(h, root_) ==
    IF root_ = NullNode THEN [null |-> TRUE] ELSE Tree(h, root_)

\* A node below id has neither a value nor children.
RECURSIVE HasDeadNode(_, _)
HasDeadNode(h, id) ==
    \E c \in DOMAIN h[id].children_ :
        LET child == h[id].children_[c] IN
            \/ ~h[child].is_value_node_ /\ DOMAIN h[child].children_ = {}
            \/ HasDeadNode(h, child)

\* C19: for every trie, the empty trie included, and every key, the empty key
\* included, Remove(key) returns a trie in which Get(key) finds no value and
\* every other key has the value it had; no node without value and children
\* is left below the root; and when the key held no value the returned trie
\* equals the original.
C19_RemoveCorrect ==
    tlast.op = "Remove" =>
        /\ ~tlast.crashed
        /\ snap[tlast.dst] = [snap[tlast.src] EXCEPT ![tlast.key] = NoValue]
        /\ roots[tlast.dst] # NullNode =>
               ~HasDeadNode(heap, roots[tlast.dst])
        /\ snap[tlast.src][tlast.key] = NoValue =>
               TrieValue(heap, roots[tlast.dst])
                   = TrieValue(heap, roots[tlast.src])

\* C20: Put and Remove are persistent.  Put(key, v) returns a trie where
\* Get(key) = v and every other key has the value it had; whatever calls were
\* made, Get on every trie the caller holds returns what it returned when that
\* trie was created, and no node that existed before a call is changed by it.
C20_Persistent ==
    /\ \A i \in DOMAIN roots : Snapshot(heap, roots[i]) = snap[i]
    /\ Len(tlast.heap) <= Len(heap)
    /\ SubSeq(heap, 1, Len(tlast.heap)) = tlast.heap
    /\ tlast.op = "Put" =>
           /\ tlast.dst = Len(roots)
           /\ roots[tlast.dst] # NullNode
           /\ snap[tlast.dst] =
                  [snap[tlast.src] EXCEPT ![tlast.key] = tlast.value]

\* Put has replaced the value of a key in a trie that is not the latest one
\* the caller was returned, after a Remove has returned a new trie.
C20_Witness ==
    /\ tlast.op = "Put"
    /\ tlast.src < tlast.dst - 1
    /\ tlast.src > 1
    /\ snap[tlast.src][tlast.key] # NoValue
    /\ \E i \in DOMAIN roots : \E key \in Keys :
           /\ snap[i][key] = NoValue
           /\ \E j \in 1 .. (i - 1) : snap[j][key] # NoValue

====
